---- MODULE Spec2Model ----
(***************************************************************************)
(* Model of src/src/bank_account.py: one BankAccount object, its           *)
(* constructor, _validate_amount, deposit, withdraw and                    *)
(* _record_transaction, the balance property and get_transaction_history,  *)
(* and what a caller can do with the object and with the list it gets.    *)
(*                                                                         *)
(* Money.  The code keeps money as decimal.Decimal under Python's default  *)
(* context: 28 significant digits, ROUND_HALF_EVEN for arithmetic, the     *)
(* InvalidOperation signal trapped (raised as an exception).  A finite     *)
(* Decimal is modelled by its exact value in cents, written in two limbs   *)
(*        value = hi * 10^27 + lo   cents,   lo small (and signed),        *)
(* so that the 28-digit limit (10^28 cents = 10 * 10^27) is a condition on *)
(* hi and the model never has to compute a 28-digit integer.  NaN is the   *)
(* record of kind "nan".                                                   *)
(*                                                                         *)
(* Arguments.  A value a caller passes is a record [tag, big, mills]:      *)
(*   tag "str"   a non-numeric object (a text token, None)                 *)
(*   tag "bool"  True (mills = 1000) or False (mills = 0)                  *)
(*   tag "nan"   float('nan');  tag "dnan"  Decimal('NaN')                 *)
(*   tag "inf"   float('inf')                                              *)
(*   tag "num"   the int, float or Decimal of value                        *)
(*               big * 10^25 + mills / 1000                                *)
(***************************************************************************)
EXTENDS Integers, Sequences, FiniteSets, TLC

VARIABLES
    constructed,  \* TRUE once __init__ has returned normally
    self,         \* the object: account_number, _balance, _transaction_history
    initial,      \* history variable: the balance __init__ stored
    calls,        \* history variable: the calls that returned True, in order
    op, arg, result, \* the last call: its name, its argument and its outcome
    ident,        \* history variable: the account number the last
                  \* BankAccount(...) call was given
    view,         \* the list a caller got from get_transaction_history()
    other,        \* a second BankAccount object
    threads       \* the calls in progress when threads share the account:
                  \* for each thread its position in deposit or withdraw
                  \* and its local values

vars ==
    <<constructed, self, initial, calls, op, arg, result, ident, view, other,
      threads>>

\* The account as its accessors show it: the balance property and
\* get_transaction_history().
balance == self._balance
history == self._transaction_history

(***************************************************************************)
(* Bounds of the model.                                                    *)
(***************************************************************************)
MaxHistory == 2
MaxMills == 25

(***************************************************************************)
(* Program constants.                                                      *)
(***************************************************************************)
ACCOUNT_NUMBER_LENGTH == 9

(***************************************************************************)
(* decimal.Decimal                                                         *)
(***************************************************************************)
Dec(hi, lo) == [kind |-> "fin", hi |-> hi, lo |-> lo]
NaN == [kind |-> "nan", hi |-> 0, lo |-> 0]
Zero == Dec(0, 0)
Cent == Dec(0, 1)

IsNaN(d) == d.kind = "nan"

\* The number of digits by which the cents coefficient of a non-negative value
\* exceeds the context precision of 28.
Excess(hi, lo) ==
    IF hi > 100 \/ (hi = 100 /\ lo >= 0) THEN 2
    ELSE IF hi > 10 \/ (hi = 10 /\ lo >= 0) THEN 1
    ELSE 0

Pow10(n) == IF n = 0 THEN 1 ELSE IF n = 1 THEN 10 ELSE 100

\* ROUND_HALF_EVEN of n to a multiple of unit.
RoundHalfEven(n, unit) ==
    LET q == n \div unit
        r == n % unit
    IN  IF 2 * r > unit \/ (2 * r = unit /\ q % 2 = 1)
        THEN (q + 1) * unit
        ELSE q * unit

\* The context rounding every arithmetic result goes through.
ContextRound(hi, lo) == Dec(hi, RoundHalfEven(lo, Pow10(Excess(hi, lo))))

\* Decimal.__add__ and Decimal.__sub__: a quiet NaN operand gives NaN.
DecAdd(a, b) ==
    IF IsNaN(a) \/ IsNaN(b) THEN NaN
    ELSE ContextRound(a.hi + b.hi, a.lo + b.lo)

DecSub(a, b) ==
    IF IsNaN(a) \/ IsNaN(b) THEN NaN
    ELSE ContextRound(a.hi - b.hi, a.lo - b.lo)

\* a < b, exactly, of two finite values.
DecLess(a, b) == a.hi < b.hi \/ (a.hi = b.hi /\ a.lo < b.lo)

(***************************************************************************)
(* Arguments                                                               *)
(***************************************************************************)
Num(big, mills) == [tag |-> "num", big |-> big, mills |-> mills]
Special(tag) == [tag |-> tag, big |-> 0, mills |-> 0]
Bool(b) == [tag |-> "bool", big |-> 0, mills |-> IF b THEN 1000 ELSE 0]

\* The argument a caller makes of a Decimal it read from the account.
OfDecimal(d) == IF IsNaN(d) THEN Special("dnan") ELSE Num(d.hi, 10 * d.lo)

Raise(e) == [exc |-> e, val |-> Zero]
Return(d) == [exc |-> "none", val |-> d]

\* Faulty variant: ROUND_HALF_EVEN, the context's rounding, instead.
RoundHalfUp_banker(mills) == RoundHalfEven(mills, 10) \div 10

\* ROUND_HALF_UP of a number of mills to cents: ties go away from zero.
RoundHalfUp(mills) ==
    IF mills >= 0 THEN (mills + 5) \div 10 ELSE -((5 - mills) \div 10)

\* Decimal(str(x)).quantize(Decimal('0.01'), rounding=ROUND_HALF_UP)
Quantize(x) ==
    CASE x.tag = "bool" -> Raise("InvalidOperation")
      [] x.tag \in {"nan", "dnan"} -> Return(NaN)
      [] x.tag = "inf" -> Raise("InvalidOperation")
      [] OTHER ->
            LET lo == RoundHalfUp(x.mills)
            IN  IF Excess(x.big, lo) > 0
                THEN Raise("InvalidOperation")
                ELSE Return(Dec(x.big, lo))

(***************************************************************************)
(* BankAccount                                                             *)
(***************************************************************************)
AsciiDigits == {"0", "1", "2", "3", "4", "5", "6", "7", "8", "9"}

\* str.isdigit() of one character: the ASCII digits and every other character
\* Unicode gives the property Digit (here ARABIC-INDIC DIGIT THREE and
\* SUPERSCRIPT TWO).
IsDigitChar(c) == c \in AsciiDigits \cup {"U+0663", "U+00B2"}

isdigit(s) == Len(s) > 0 /\ \A i \in 1..Len(s) : IsDigitChar(s[i])

\* Faulty variant: no type check.
IsNumeric_anything(amount) == TRUE

\* isinstance(amount, (int, float, Decimal))
IsNumeric(amount) == amount.tag # "str"

\* Faulty variant: the sign is tested on the amount as given, before rounding.
_validate_amount_sign_first(amount) ==
    IF ~IsNumeric(amount) THEN Raise("TypeError: Amount must be numeric")
    ELSE LET q == Quantize(amount)
         IN  IF q.exc # "none" THEN q
             ELSE IF IsNaN(q.val) THEN Raise("InvalidOperation")
             ELSE IF amount.big = 0 /\ amount.mills <= 0
             THEN Raise("ValueError: Amount must be positive")
             ELSE q

\* Faulty variant: only a negative amount is refused, zero passes.
_validate_amount_zero_ok(amount) ==
    IF ~IsNumeric(amount) THEN Raise("TypeError: Amount must be numeric")
    ELSE LET q == Quantize(amount)
         IN  IF q.exc # "none" THEN q
             ELSE IF IsNaN(q.val) THEN Raise("InvalidOperation")
             ELSE IF DecLess(q.val, Zero)
             THEN Raise("ValueError: Amount must be positive")
             ELSE q

_validate_amount(amount) ==
    IF ~IsNumeric(amount) THEN Raise("TypeError: Amount must be numeric")
    ELSE LET q == Quantize(amount)
         IN  IF q.exc # "none" THEN q
             ELSE IF IsNaN(q.val) THEN Raise("InvalidOperation")
             ELSE IF ~DecLess(Zero, q.val)
             THEN Raise("ValueError: Amount must be positive")
             ELSE q

\* The outcome of a method: the exception it raised ("none" for a normal
\* return) and the object as the method left it.
Raised(e, obj) == [exc |-> e, self |-> obj]
Returned(obj) == [exc |-> "none", self |-> obj]

\* Faulty variant: the initial balance is cut to two decimals, not rounded.
__init___truncates(number, initial_balance) ==
    LET none == [account_number |-> <<>>, _balance |-> Zero,
                 _transaction_history |-> <<>>]
        q == Quantize(initial_balance)
    IN  IF Len(number) = 0
        THEN Raised("ValueError: Account number cannot be empty", none)
        ELSE IF ~isdigit(number) \/ Len(number) # ACCOUNT_NUMBER_LENGTH
        THEN Raised("ValueError: Account number must be exactly 9 digits", none)
        ELSE IF initial_balance.tag = "str" THEN Raised("TypeError", none)
        ELSE IF initial_balance.tag = "dnan" THEN Raised("InvalidOperation", none)
        ELSE IF initial_balance.tag = "num"
                /\ (initial_balance.big < 0 \/ initial_balance.mills < 0)
        THEN Raised("ValueError: Initial balance cannot be negative", none)
        ELSE IF q.exc # "none" THEN Raised(q.exc, none)
        ELSE Returned([account_number |-> number,
                       _balance |-> IF IsNaN(q.val) THEN q.val
                                    ELSE Dec(q.val.hi, initial_balance.mills \div 10),
                       _transaction_history |-> <<>>])

\* __init__: the checks in their order, then the three assignments.
__init__(number, initial_balance) ==
    LET none == [account_number |-> <<>>, _balance |-> Zero,
                 _transaction_history |-> <<>>]
        q == Quantize(initial_balance)
    IN  IF Len(number) = 0
        THEN Raised("ValueError: Account number cannot be empty", none)
        ELSE IF ~isdigit(number) \/ Len(number) # ACCOUNT_NUMBER_LENGTH
        THEN Raised("ValueError: Account number must be exactly 9 digits", none)
        ELSE IF initial_balance.tag = "str" THEN Raised("TypeError", none)
        ELSE IF initial_balance.tag = "dnan" THEN Raised("InvalidOperation", none)
        ELSE IF initial_balance.tag = "num"
                /\ (initial_balance.big < 0 \/ initial_balance.mills < 0)
        THEN Raised("ValueError: Initial balance cannot be negative", none)
        ELSE IF q.exc # "none" THEN Raised(q.exc, none)
        ELSE Returned([account_number |-> number, _balance |-> q.val,
                       _transaction_history |-> <<>>])

\* Faulty variant: the new entry is put in front of the list.
_record_transaction_prepends(obj, transaction_type, amount, now) ==
    [obj EXCEPT !._transaction_history =
        <<[type |-> transaction_type, amount |-> amount, timestamp |-> now]>>
        \o @]

\* Faulty variant: the list is replaced by one holding the new entry only.
_record_transaction_rewrites(obj, transaction_type, amount, now) ==
    [obj EXCEPT !._transaction_history =
        <<[type |-> transaction_type, amount |-> amount, timestamp |-> now]>>]

_record_transaction(obj, transaction_type, amount, now) ==
    [obj EXCEPT !._transaction_history =
        Append(@, [type |-> transaction_type, amount |-> amount,
                   timestamp |-> now])]

\* Faulty variant: the transaction is recorded before the amount is checked.
deposit_records_first(obj, amount, now) ==
    LET v == _validate_amount(amount)
        logged == _record_transaction(obj, "deposit", v.val, now)
    IN  IF v.exc # "none" THEN Raised(v.exc, logged)
        ELSE Returned([logged EXCEPT !._balance = DecAdd(@, v.val)])

deposit(obj, amount, now) ==
    LET v == _validate_amount(amount)
    IN  IF v.exc # "none" THEN Raised(v.exc, obj)
        ELSE Returned(_record_transaction(
                 [obj EXCEPT !._balance = DecAdd(@, v.val)],
                 "deposit", v.val, now))

\* Faulty variant: no sufficiency check.
withdraw_unchecked(obj, amount, now) ==
    LET v == _validate_amount(amount)
    IN  IF v.exc # "none" THEN Raised(v.exc, obj)
        ELSE Returned(_record_transaction(
                 [obj EXCEPT !._balance = DecSub(@, v.val)],
                 "withdrawal", v.val, now))

\* Faulty variant: the balance is debited before the sufficiency check.
withdraw_debits_first(obj, amount, now) ==
    LET v == _validate_amount(amount)
        debited == [obj EXCEPT !._balance = DecSub(@, v.val)]
    IN  IF v.exc # "none" THEN Raised(v.exc, obj)
        ELSE IF IsNaN(obj._balance) THEN Raised("InvalidOperation", obj)
        ELSE IF DecLess(obj._balance, v.val)
        THEN Raised("ValueError: Insufficient funds", debited)
        ELSE Returned(_record_transaction(debited, "withdrawal", v.val, now))

\* Faulty variant: the funds are compared with the amount as given, before the
\* amount is validated.
withdraw_funds_first(obj, amount, now) ==
    LET v == _validate_amount(amount)
    IN  IF /\ amount.tag = "num"
           /\ ~IsNaN(obj._balance)
           /\ \/ amount.big > obj._balance.hi
              \/ (amount.big = obj._balance.hi
                  /\ amount.mills > 10 * obj._balance.lo)
        THEN Raised("ValueError: Insufficient funds", obj)
        ELSE IF v.exc # "none" THEN Raised(v.exc, obj)
        ELSE IF IsNaN(obj._balance) THEN Raised("InvalidOperation", obj)
        ELSE Returned(_record_transaction(
                 [obj EXCEPT !._balance = DecSub(@, v.val)],
                 "withdrawal", v.val, now))

withdraw(obj, amount, now) ==
    LET v == _validate_amount(amount)
    IN  IF v.exc # "none" THEN Raised(v.exc, obj)
        ELSE IF IsNaN(obj._balance) THEN Raised("InvalidOperation", obj)
        ELSE IF DecLess(obj._balance, v.val)
        THEN Raised("ValueError: Insufficient funds", obj)
        ELSE Returned(_record_transaction(
                 [obj EXCEPT !._balance = DecSub(@, v.val)],
                 "withdrawal", v.val, now))

\* A list as a caller holds it: its items are references to entries, an entry
\* of the account's list by its position there and an object of the caller's
\* own by 0; alias tells whether the list is the account's own list object.
Foreign == [type |-> "caller", amount |-> Zero, timestamp |-> "t0"]

\* Faulty variant: the internal list itself is handed out.
get_transaction_history_no_copy(obj) ==
    [alias |-> TRUE,
     items |-> [i \in 1..Len(obj._transaction_history) |-> i]]

\* get_transaction_history: list.copy() makes a new list of the same entry
\* objects.
get_transaction_history(obj) ==
    [alias |-> FALSE,
     items |-> [i \in 1..Len(obj._transaction_history) |-> i]]

\* The items of a held list, and the entries they refer to.
Items(obj, v) ==
    IF v.alias THEN [i \in 1..Len(obj._transaction_history) |-> i] ELSE v.items

Deref(obj, items) ==
    [i \in 1..Len(items) |->
        IF items[i] = 0 THEN Foreign ELSE obj._transaction_history[items[i]]]

\* The caller changes the list it holds (append, pop, reverse, clear) to hold
\* the given items: the account's list changes when it is that same list.
ListAssign(obj, v, items) ==
    IF v.alias
    THEN [self |-> [obj EXCEPT !._transaction_history = Deref(obj, items)],
          view |-> [v EXCEPT !.items = [i \in 1..Len(items) |-> i]]]
    ELSE [self |-> obj, view |-> [v EXCEPT !.items = items]]

\* The caller assigns a key of the i-th entry of the list it holds: the entry
\* is a dict, the same object the account's list holds.
EntryAssign(obj, v, i, amount) ==
    LET k == Items(obj, v)[i]
    IN  IF k = 0 THEN obj
        ELSE [obj EXCEPT !._transaction_history[k].amount = amount]

\* Faulty variant: the property has a setter.
balance_set_assigns(obj, value) == Returned([obj EXCEPT !._balance = value])

\* account.balance = value: the property has no setter.
balance_set(obj, value) == Raised("AttributeError", obj)

\* account.account_number = number: a plain instance attribute.
account_number_set(obj, number) ==
    Returned([obj EXCEPT !.account_number = number])

\* Faulty variant: the transaction list is one list of the class.
Bind_class_level(target, bystander) ==
    [target |-> target,
     bystander |-> [bystander EXCEPT !._transaction_history =
                                        target._transaction_history]]

\* The attributes are bound on the instance (self.x = ...): a method that
\* rebinds or mutates its own object's leaves every other object's alone.
Bind(target, bystander) == [target |-> target, bystander |-> bystander]

(***************************************************************************)
(* Inputs                                                                  *)
(***************************************************************************)
Rep(c, n) == [i \in 1..n |-> c]

AccountNumbers ==
    { <<>>, Rep("1", 5), Rep("1", 9), Rep("1", 10),
      Rep("1", 8) \o <<"a">>, Rep("1", 8) \o <<"U+0663">> }

Timestamps == {"t1", "t2"}

Mills == {-5, -4, 0, 1, 4, 5, 10999}

\* The values callers pass: non-numeric, boolean and special values, amounts
\* with three fractional digits, 9e25 (the largest order of magnitude that
\* still fits 28 digits at two decimals) and 1e26 (which does not).
Values ==
    {Special("str"), Bool(TRUE), Bool(FALSE), Special("nan"), Special("dnan"),
     Special("inf")}
    \cup {Num(0, m) : m \in Mills} \cup {Num(9, 0), Num(10, 0)}

\* A caller can also pass what it read from the account: the balance, and the
\* balance plus one cent.
Amounts == Values \cup {OfDecimal(balance), OfDecimal(DecAdd(balance, Cent))}

(***************************************************************************)
(* The state machine                                                       *)
(***************************************************************************)
NoObject ==
    [account_number |-> <<>>, _balance |-> Zero, _transaction_history |-> <<>>]

NoView == [alias |-> FALSE, items |-> <<>>]

\* The threads that call the account, and a thread that is in no call.
Threads == {1, 2}

Idle ==
    [pc |-> "idle", kind |-> "none", amount |-> Zero, seen |-> Zero,
     tmp |-> Zero, stale |-> FALSE, result |-> "none"]

NoThreads == [t \in Threads |-> Idle]

Init ==
    /\ constructed = FALSE
    /\ self = NoObject
    /\ initial = Zero
    /\ calls = <<>>
    /\ op = "none"
    /\ arg = Special("str")
    /\ result = "none"
    /\ ident = <<>>
    /\ view = NoView
    /\ other = NoObject
    /\ threads = NoThreads

\* BankAccount(number, initial_balance)
Create(number, initial_balance) ==
    /\ ~constructed
    /\ op' = "create"
    /\ arg' = initial_balance
    /\ ident' = number
    /\ UNCHANGED <<view, threads>>
    /\ LET r == __init__(number, initial_balance)
           o == Bind(r.self, other)
       IN  IF r.exc # "none"
           THEN /\ result' = r.exc
                /\ UNCHANGED <<constructed, self, initial, calls, other>>
           ELSE /\ result' = "created"
                /\ constructed' = TRUE
                /\ self' = o.target
                /\ other' = o.bystander
                /\ initial' = r.self._balance
                /\ UNCHANGED calls

\* A call of a mutating method: the object after it, the outcome, and, when it
\* returned True, the call appended to the log of successful calls.
Call(name, type, r, amount) ==
    /\ op' = name
    /\ arg' = amount
    /\ self' = Bind(r.self, other).target
    /\ other' = Bind(r.self, other).bystander
    /\ result' = IF r.exc = "none" THEN "True" ELSE r.exc
    /\ calls' = IF r.exc = "none"
                THEN Append(calls, [type |-> type,
                                    amount |-> _validate_amount(amount).val])
                ELSE calls
    /\ UNCHANGED <<constructed, initial, ident, view, threads>>

\* account.deposit(amount)
Deposit(amount, now, limit) ==
    /\ constructed
    /\ Len(history) < limit
    /\ Call("deposit", "deposit", deposit(self, amount, now), amount)

\* account.withdraw(amount)
Withdraw(amount, now, limit) ==
    /\ constructed
    /\ Len(history) < limit
    /\ Call("withdraw", "withdrawal", withdraw(self, amount, now), amount)

Next ==
    \/ \E number \in AccountNumbers, b \in Values : Create(number, b)
    \/ \E amount \in Amounts, now \in Timestamps : Deposit(amount, now, MaxHistory)
    \/ \E amount \in Amounts, now \in Timestamps : Withdraw(amount, now, MaxHistory)

Spec == Init /\ [][Next]_vars

\* The same account driven over every amount of a range of mills, around zero
\* and around 11.00, for one mutating call.
RoundingInputs ==
    {Num(0, m) : m \in -MaxMills..MaxMills}
    \cup {Num(0, 10990 + m) : m \in 0..MaxMills}

NextRounding ==
    \/ \E b \in RoundingInputs : Create(Rep("1", 9), b)
    \/ \E amount \in RoundingInputs : Deposit(amount, "t1", 1)
    \/ \E amount \in RoundingInputs : Withdraw(amount, "t1", 1)

SpecRounding == Init /\ [][NextRounding]_vars

\* account.balance
ReadBalance ==
    /\ constructed
    /\ op' = "balance"
    /\ result' = "returned"
    /\ UNCHANGED <<constructed, self, initial, calls, arg, ident, view, other, threads>>

\* view = account.get_transaction_history()
GetHistory ==
    /\ constructed
    /\ op' = "get_transaction_history"
    /\ result' = "returned"
    /\ view' = get_transaction_history(self)
    /\ UNCHANGED <<constructed, self, initial, calls, arg, ident, other, threads>>

\* A list method called on the list the caller holds.
ViewChange(name, items) ==
    /\ constructed
    /\ op' = name
    /\ result' = "returned"
    /\ self' = ListAssign(self, view, items).self
    /\ view' = ListAssign(self, view, items).view
    /\ UNCHANGED <<constructed, initial, calls, arg, ident, other, threads>>

\* view.append(x), with x an object of the caller's
ViewAppend ==
    /\ \A i \in DOMAIN Items(self, view) : Items(self, view)[i] # 0
    /\ ViewChange("list.append", Append(Items(self, view), 0))

\* view.pop()
ViewPop ==
    /\ Items(self, view) # <<>>
    /\ ViewChange("list.pop",
                  SubSeq(Items(self, view), 1, Len(Items(self, view)) - 1))

\* view.reverse()
ViewReverse ==
    LET items == Items(self, view)
    IN  ViewChange("list.reverse",
                   [i \in 1..Len(items) |-> items[Len(items) + 1 - i]])

\* view.clear()
ViewClear == ViewChange("list.clear", <<>>)

\* view[i]['amount'] = amount
ViewSetEntry(i, amount) ==
    /\ constructed
    /\ i \in DOMAIN Items(self, view)
    /\ op' = "entry.amount="
    /\ result' = "assigned"
    /\ self' = EntryAssign(self, view, i, amount)
    /\ UNCHANGED <<constructed, initial, calls, arg, ident, view, other, threads>>

\* An assignment to an attribute of the account from outside.
Assign(name, r) ==
    /\ constructed
    /\ op' = name
    /\ result' = IF r.exc = "none" THEN "assigned" ELSE r.exc
    /\ self' = r.self
    /\ UNCHANGED <<constructed, initial, calls, arg, ident, view, other, threads>>

\* account.balance = value
SetBalance(value) == Assign("balance=", balance_set(self, value))

\* account.account_number = number
SetAccountNumber(number) ==
    Assign("account_number=", account_number_set(self, number))

\* One account, its reads, the lists a caller obtains from it and the
\* assignments a caller tries on it.
ViewBalances == {Num(0, 0), Num(0, 10000)}
ViewAmounts == {Special("str"), Num(0, 5000)}

NextViews ==
    \/ \E b \in ViewBalances : Create(Rep("1", 9), b)
    \/ \E amount \in ViewAmounts : Deposit(amount, "t1", MaxHistory)
    \/ \E amount \in ViewAmounts : Withdraw(amount, "t1", MaxHistory)
    \/ ReadBalance
    \/ GetHistory
    \/ ViewAppend
    \/ ViewPop
    \/ ViewReverse
    \/ ViewClear
    \/ \E i \in 1..(MaxHistory + 1) : ViewSetEntry(i, Zero)
    \/ SetBalance(Cent)
    \/ SetAccountNumber(Rep("2", 9))

SpecViews == Init /\ [][NextViews]_vars

\* A second account: second = BankAccount(number, initial_balance)
OtherCreate(number, initial_balance) ==
    /\ other = NoObject
    /\ op' = "other.create"
    /\ arg' = initial_balance
    /\ LET r == __init__(number, initial_balance)
           o == Bind(r.self, self)
       IN  IF r.exc # "none"
           THEN /\ result' = r.exc
                /\ UNCHANGED <<self, other>>
           ELSE /\ result' = "created"
                /\ other' = o.target
                /\ self' = o.bystander
    /\ UNCHANGED <<constructed, initial, calls, ident, view, threads>>

\* A call of a mutating method of the second account.
OtherCall(name, r, amount) ==
    /\ op' = name
    /\ arg' = amount
    /\ other' = Bind(r.self, self).target
    /\ self' = Bind(r.self, self).bystander
    /\ result' = IF r.exc = "none" THEN "True" ELSE r.exc
    /\ UNCHANGED <<constructed, initial, calls, ident, view, threads>>

\* second.deposit(amount)
OtherDeposit(amount, now, limit) ==
    /\ other # NoObject
    /\ Len(other._transaction_history) < limit
    /\ OtherCall("other.deposit", deposit(other, amount, now), amount)

\* second.withdraw(amount)
OtherWithdraw(amount, now, limit) ==
    /\ other # NoObject
    /\ Len(other._transaction_history) < limit
    /\ OtherCall("other.withdraw", withdraw(other, amount, now), amount)

\* Two accounts, their calls interleaved.
NextTwo ==
    \/ \E b \in ViewBalances : Create(Rep("1", 9), b)
    \/ \E amount \in ViewAmounts : Deposit(amount, "t1", MaxHistory)
    \/ \E amount \in ViewAmounts : Withdraw(amount, "t1", MaxHistory)
    \/ \E number \in {Rep("2", 9), Rep("2", 5)}, b \in ViewBalances :
          OtherCreate(number, b)
    \/ \E amount \in ViewAmounts : OtherDeposit(amount, "t2", MaxHistory)
    \/ \E amount \in ViewAmounts : OtherWithdraw(amount, "t2", MaxHistory)

SpecTwo == Init /\ [][NextTwo]_vars

\* A caller's transfer: source.withdraw(amount) and, only when that returned
\* True, destination.deposit(amount).
transfer(source, destination, amount, now) ==
    LET w == withdraw(source, amount, now)
        d == deposit(destination, amount, now)
    IN  IF w.exc # "none"
        THEN [exc |-> w.exc, source |-> w.self, destination |-> destination]
        ELSE [exc |-> d.exc, source |-> w.self, destination |-> d.self]

\* A transfer between the two accounts, in the given direction.
Transfer(name, out, amount, now, limit) ==
    LET r == IF out THEN transfer(self, other, amount, now)
                    ELSE transfer(other, self, amount, now)
    IN  /\ constructed
        /\ other # NoObject
        /\ Len(history) < limit
        /\ Len(other._transaction_history) < limit
        /\ op' = name
        /\ arg' = amount
        /\ result' = IF r.exc = "none" THEN "True" ELSE r.exc
        /\ self' = IF out THEN r.source ELSE r.destination
        /\ other' = IF out THEN r.destination ELSE r.source
        /\ calls' = IF r.exc = "none"
                    THEN Append(calls,
                                [type |-> IF out THEN "withdrawal" ELSE "deposit",
                                 amount |-> _validate_amount(amount).val])
                    ELSE calls
        /\ UNCHANGED <<constructed, initial, ident, view, threads>>

\* Two accounts and the transfers between them; 90000000000000000000000000.01
\* is an initial balance of 28 digits.
TransferBalances == {Num(0, 10000), Num(9, 10)}

TransferAmounts(source) ==
    {Special("str"), Num(0, 5000), Num(0, 10999), OfDecimal(source._balance)}

NextTransfer ==
    \/ \E b \in TransferBalances : Create(Rep("1", 9), b)
    \/ \E b \in TransferBalances : OtherCreate(Rep("2", 9), b)
    \/ \E amount \in TransferAmounts(self) :
          Transfer("transfer", TRUE, amount, "t1", MaxHistory)
    \/ \E amount \in TransferAmounts(other) :
          Transfer("other.transfer", FALSE, amount, "t2", MaxHistory)

SpecTransfer == Init /\ [][NextTransfer]_vars

(***************************************************************************)
(* Threads.  The class has no lock: when two threads call the same         *)
(* account, a switch can fall between the statements of deposit and        *)
(* withdraw, and between the read and the write of `self._balance += x`.   *)
(* Each thread makes one call, in the steps begin (the validation, which   *)
(* touches nothing shared), check (withdraw only), load, store, record.    *)
(***************************************************************************)

\* Faulty variant: no sufficiency check.
Sufficient_always(bal, amount) == TRUE

\* withdraw: `if decimal_amount > self._balance: raise`, negated.
Sufficient(bal, amount) == ~DecLess(bal, amount)

\* Faulty variant: the amount is added in withdraw too.
Updated_adds(kind, bal, amount) == DecAdd(bal, amount)

\* The value `self._balance += decimal_amount` (deposit) or
\* `self._balance -= decimal_amount` (withdraw) computes from the balance read.
Updated(kind, bal, amount) ==
    IF kind = "deposit" THEN DecAdd(bal, amount) ELSE DecSub(bal, amount)

\* The steps change the account and the thread only.
ThreadStep(t, obj, local) ==
    /\ self' = obj
    /\ threads' = [threads EXCEPT ![t] = local]
    /\ UNCHANGED <<constructed, initial, calls, op, arg, result, ident, view,
                   other>>

\* Thread t enters deposit or withdraw: decimal_amount = _validate_amount(amount)
Begin(t, kind, amount) ==
    LET v == _validate_amount(amount)
    IN  /\ constructed
        /\ threads[t].pc = "idle"
        /\ ThreadStep(t, self,
              IF v.exc # "none"
              THEN [Idle EXCEPT !.pc = "done", !.kind = kind, !.result = v.exc]
              ELSE [Idle EXCEPT !.pc = IF kind = "withdraw" THEN "check"
                                                            ELSE "load",
                                !.kind = kind, !.amount = v.val])

\* withdraw: the sufficiency check
Check(t) ==
    LET me == threads[t]
    IN  /\ me.pc = "check"
        /\ ThreadStep(t, self,
              IF IsNaN(balance)
              THEN [me EXCEPT !.pc = "done", !.result = "InvalidOperation"]
              ELSE IF ~Sufficient(balance, me.amount)
              THEN [me EXCEPT !.pc = "done",
                              !.result = "ValueError: Insufficient funds"]
              ELSE [me EXCEPT !.pc = "load", !.seen = balance])

\* the read of self._balance in the augmented assignment
Load(t) ==
    LET me == threads[t]
    IN  /\ me.pc = "load"
        /\ ThreadStep(t, self, [me EXCEPT !.pc = "store", !.tmp = balance])

\* the write of self._balance in the augmented assignment; stale records
\* that the balance was written by another thread since this one read it
Store(t) ==
    LET me == threads[t]
    IN  /\ me.pc = "store"
        /\ ThreadStep(t,
              [self EXCEPT !._balance = Updated(me.kind, me.tmp, me.amount)],
              [me EXCEPT !.pc = "record", !.stale = (me.tmp # balance)])

\* self._record_transaction(...); return True
Record(t, now) ==
    LET me == threads[t]
    IN  /\ me.pc = "record"
        /\ ThreadStep(t,
              _record_transaction(self,
                  IF me.kind = "deposit" THEN "deposit" ELSE "withdrawal",
                  me.amount, now),
              [me EXCEPT !.pc = "done", !.result = "True"])

\* One account of 10.00 and two threads with one call each.
ThreadBalances == {Num(0, 10000)}
ThreadAmounts == {Special("str"), Num(0, 5000), Num(0, 10000)}

NextThreads ==
    \/ \E b \in ThreadBalances : Create(Rep("1", 9), b)
    \/ \E t \in Threads, kind \in {"deposit", "withdraw"},
          amount \in ThreadAmounts : Begin(t, kind, amount)
    \/ \E t \in Threads : Check(t)
    \/ \E t \in Threads : Load(t)
    \/ \E t \in Threads : Store(t)
    \/ \E t \in Threads : Record(t, "t1")

SpecThreads == Init /\ [][NextThreads]_vars

(***************************************************************************)
(* Properties                                                              *)
(***************************************************************************)
NonNumeric == "TypeError: Amount must be numeric"
NonPositive == "ValueError: Amount must be positive"
Insufficient == "ValueError: Insufficient funds"

\* The net of a history, summed exactly (no context rounding), as <<hi, lo>>.
RECURSIVE Net(_)
Net(h) ==
    IF h = <<>> THEN <<0, 0>>
    ELSE LET e == h[Len(h)]
             rest == Net(SubSeq(h, 1, Len(h) - 1))
             sign == IF e.type = "deposit" THEN 1 ELSE -1
         IN  <<rest[1] + sign * e.amount.hi, rest[2] + sign * e.amount.lo>>

\* C1: the balance equals the rounded initial balance plus the deposits minus
\* the withdrawals of the history, in every reachable state.  Stated here for
\* the accounts whose initial balance is a number.
C1_Conservation ==
    (constructed /\ ~IsNaN(initial)) =>
        balance = Dec(initial.hi + Net(history)[1], initial.lo + Net(history)[2])

\* C2: the balance of a constructed account is never negative: balance >= 0.
C2_NonNegative ==
    constructed => (~IsNaN(balance) /\ ~DecLess(balance, Zero))

\* C3: a deposit or withdraw that fails as non-numeric, non-positive or
\* insufficient funds leaves the balance and the whole history as they were.
C3_FailedCallIsNoOp ==
    [][(op' \in {"deposit", "withdraw"}
        /\ result' \in {NonNumeric, NonPositive, Insufficient})
       => self' = self]_vars

C3_Witness ==
    /\ Len(history) = 1
    /\ op = "withdraw"
    /\ result \in {NonNumeric, NonPositive, Insufficient}

\* C4: the history has one entry per call that returned True, in call order,
\* each with the kind and the validated amount of its call.
C4_HistoryMirrorsCalls ==
    /\ Len(history) = Len(calls)
    /\ \A i \in 1..Len(history) :
          /\ history[i].type = calls[i].type
          /\ history[i].amount = calls[i].amount

C4_Witness ==
    /\ Len(history) = 2
    /\ history[1].type = "deposit"
    /\ history[2].type = "withdrawal"
    /\ history[1].amount # history[2].amount

\* C5: a withdraw whose validated amount is greater than the balance fails
\* with 'Insufficient funds' and leaves balance and history unchanged.
C5_InsufficientFunds ==
    [][(/\ op' = "withdraw"
        /\ _validate_amount(arg').exc = "none"
        /\ ~IsNaN(balance)
        /\ DecLess(balance, _validate_amount(arg').val))
       => (result' = Insufficient /\ self' = self)]_vars

C5_Witness ==
    /\ op = "withdraw"
    /\ result = Insufficient
    /\ Len(history) = 1
    /\ DecLess(Zero, balance)

Abs(n) == IF n < 0 THEN -n ELSE n

\* c cents is m mills rounded to the nearest cent, a tie going to the cent of
\* larger magnitude.
IsNearestCent(c, m) ==
    /\ Abs(10 * c - m) <= 5
    /\ Abs(10 * c - m) = 5 => Abs(10 * c) > Abs(m)

HalfUpCents(m) ==
    CHOOSE c \in (m \div 10 - 1)..(m \div 10 + 1) : IsNearestCent(c, m)

\* The rounded value of a numeric argument, and exact sums and differences.
Rounded(x) == Dec(x.big, HalfUpCents(x.mills))
Plus(a, b) == Dec(a.hi + b.hi, a.lo + b.lo)
Minus(a, b) == Dec(a.hi - b.hi, a.lo - b.lo)

\* h2 is h1 with one entry of this kind and amount appended.
Appended(h1, h2, type, amount) ==
    /\ Len(h2) = Len(h1) + 1
    /\ SubSeq(h2, 1, Len(h1)) = h1
    /\ h2[Len(h2)].type = type
    /\ h2[Len(h2)].amount = amount

\* C6: withdrawing exactly the current balance succeeds and leaves 0.00, and
\* withdrawing the current balance plus 0.01 fails with 'Insufficient funds'.
\* Stated here for the accounts whose balance is a positive number.
C6_Boundary ==
    [][(op' = "withdraw" /\ ~IsNaN(balance) /\ DecLess(Zero, balance))
       => /\ arg' = OfDecimal(balance) => (result' = "True" /\ balance' = Zero)
          /\ arg' = OfDecimal(DecAdd(balance, Cent)) => result' = Insufficient]_vars

\* C7: a deposit that succeeds, of a number whose rounded value is a > 0,
\* returns True, adds exactly a to the balance and appends one 'deposit' entry
\* of amount a.  Stated here for the accounts whose balance is a number.
C7_DepositApplies ==
    [][(op' = "deposit" /\ result' = "True" /\ arg'.tag = "num" /\ ~IsNaN(balance))
       => /\ DecLess(Zero, Rounded(arg'))
          /\ balance' = Plus(balance, Rounded(arg'))
          /\ Appended(history, history', "deposit", Rounded(arg'))]_vars

\* C8: a withdraw of a number whose rounded value a has 0 < a <= balance
\* returns True, takes exactly a off the balance and appends one 'withdrawal'
\* entry of amount a.
C8_WithdrawApplies ==
    [][(/\ op' = "withdraw" /\ arg'.tag = "num" /\ ~IsNaN(balance)
        /\ DecLess(Zero, Rounded(arg'))
        /\ ~DecLess(balance, Rounded(arg')))
       => /\ result' = "True"
          /\ balance' = Minus(balance, Rounded(arg'))
          /\ Appended(history, history', "withdrawal", Rounded(arg'))]_vars

C10_RoundHalfUp ==
    /\ (op \in {"deposit", "withdraw"} /\ result = "True")
          => IsNearestCent(history[Len(history)].amount.lo, arg.mills)
    /\ (op \in {"deposit", "withdraw"} /\ result = NonPositive)
          => \E c \in -MaxMills..0 : IsNearestCent(c, arg.mills)
    /\ (op \in {"deposit", "withdraw"} /\ result = Insufficient)
          => \E c \in 1..(2 * MaxMills + 1100) : IsNearestCent(c, arg.mills)
    /\ (op = "create" /\ result = "created")
          => IsNearestCent(balance.lo, arg.mills)

C10_Witness ==
    /\ initial = Dec(0, 1100)
    /\ Len(history) = 1
    /\ op = "deposit"
    /\ arg = Num(0, 5)
    /\ balance = Dec(0, 1101)

\* C11: a deposit or withdraw of a non-numeric amount fails with TypeError
\* 'Amount must be numeric', a kind other than the two ValueErrors, whatever
\* the balance is, and leaves balance and history unchanged.
C11_NonNumeric ==
    [][(op' \in {"deposit", "withdraw"} /\ arg'.tag = "str")
       => /\ result' = NonNumeric
          /\ result' \notin {NonPositive, Insufficient}
          /\ self' = self]_vars

C11_Witness ==
    /\ op = "withdraw"
    /\ arg.tag = "str"
    /\ result = NonNumeric
    /\ Len(history) = 1

InvalidIdentifier ==
    {"ValueError: Account number cannot be empty",
     "ValueError: Account number must be exactly 9 digits"}
NegativeInitialBalance == "ValueError: Initial balance cannot be negative"

NineAsciiDigits(s) == Len(s) = 9 /\ \A i \in 1..Len(s) : s[i] \in AsciiDigits

\* C12: construction gets past the identifier checks if and only if the
\* identifier is exactly 9 ASCII digits; any other identifier fails with
\* InvalidIdentifier and no account is created.
C12_NineAsciiDigits ==
    op = "create" =>
        /\ NineAsciiDigits(ident) <=> result \notin InvalidIdentifier
        /\ result \in InvalidIdentifier => ~constructed

\* C13: with a valid identifier and a number as initial balance, construction
\* fails with 'Initial balance cannot be negative' exactly when the number as
\* supplied is negative, and succeeds for every number >= 0.
C13_NegativeInitialBalance ==
    (op = "create" /\ NineAsciiDigits(ident) /\ arg.tag = "num")
        => IF arg.big < 0 \/ arg.mills < 0
           THEN result = NegativeInitialBalance
           ELSE result = "created"

\* C14: right after a construction with a number >= 0 the balance is that
\* number rounded half-up to two decimals, the history is empty and the
\* identifier is the one supplied.
C14_InitialState ==
    (op = "create" /\ result = "created" /\ arg.tag = "num")
        => /\ balance = Rounded(arg)
           /\ history = <<>>
           /\ self.account_number = ident

C14_Witness ==
    /\ op = "create"
    /\ result = "created"
    /\ arg = Num(0, 10999)
    /\ balance = Dec(0, 1100)
    /\ self.account_number = Rep("1", 9)

\* C15: a deposit or withdraw either raises and leaves the object as it was,
\* or returns True having appended exactly one entry and having applied that
\* entry's amount to the balance; no call does one without the other.
C15_AllOrNothing ==
    [][op' \in {"deposit", "withdraw"}
       => \/ result' # "True" /\ self' = self
          \/ /\ result' = "True"
             /\ Len(history') = Len(history) + 1
             /\ SubSeq(history', 1, Len(history)) = history
             /\ balance' = IF op' = "deposit"
                           THEN DecAdd(balance, history'[Len(history')].amount)
                           ELSE DecSub(balance, history'[Len(history')].amount)]_vars

C15_Witness ==
    /\ op = "deposit"
    /\ result = NonPositive
    /\ Len(history) = 1
    /\ history[1].type = "withdrawal"

\* C16: the list get_transaction_history returns is a copy: appending to it,
\* popping from it, reversing it or clearing it leaves the account's log as it
\* was, and a call of get_transaction_history returns the whole log.
ListOps == {"list.append", "list.pop", "list.reverse", "list.clear"}

C16_IndependentCopy ==
    [][/\ op' \in ListOps => history' = history
       /\ op' = "get_transaction_history"
            => /\ history' = history
               /\ Deref(self', Items(self', view')) = history]_vars

C16_Witness ==
    /\ op = "list.clear"
    /\ view.items = <<>>
    /\ Len(history) = 2

\* C17: an entry of the log, once appended, keeps its kind, amount and
\* timestamp in every later step, whatever the account or a caller does.
C17_EntriesImmutable ==
    [][\A i \in 1..Len(history) :
          /\ i <= Len(history')
          /\ history'[i] = history[i]]_vars

\* C18: reading the balance or the history never fails and changes nothing of
\* the account; an assignment to balance from outside leaves the balance as it
\* was; the balance of an account changes only in a deposit or withdraw that
\* returned True.
C18_ReadOnly ==
    [][/\ op' \in {"balance", "get_transaction_history"}
            => (result' = "returned" /\ self' = self)
       /\ op' = "balance=" => balance' = balance
       /\ (constructed /\ balance' # balance)
            => (op' \in {"deposit", "withdraw"} /\ result' = "True")]_vars

C18_Witness ==
    /\ op = "balance="
    /\ result = "AttributeError"
    /\ Len(history) = 1
    /\ balance = Dec(0, 500)

\* C19: the account number of a constructed account is the one given at
\* construction, in every reachable state.
C19_IdentifierFixed ==
    constructed => self.account_number = ident

\* C20: a call on one account, whether it succeeds or fails, leaves the
\* balance, the history and the account number of the other account as they
\* were.
C20_Isolation ==
    [][/\ op' \in {"other.create", "other.deposit", "other.withdraw"}
            => self' = self
       /\ op' \in {"create", "deposit", "withdraw"} => other' = other]_vars

C20_Witness ==
    /\ op = "other.withdraw"
    /\ result = Insufficient
    /\ other.account_number = Rep("2", 9)
    /\ other._balance = Zero
    /\ Len(history) = 1
    /\ balance = Dec(0, 500)

\* C21: a transfer of a number has two outcomes only: the withdraw fails and
\* both accounts are unchanged, or the source loses exactly the rounded amount
\* and the destination gains exactly the rounded amount; either way the sum
\* of the two balances is what it was.
C21_Transfer ==
    [][(op' \in {"transfer", "other.transfer"} /\ arg'.tag = "num")
       => LET out == op' = "transfer"
              source == IF out THEN balance ELSE other._balance
              destination == IF out THEN other._balance ELSE balance
              source2 == IF out THEN balance' ELSE other'._balance
              destination2 == IF out THEN other'._balance ELSE balance'
          IN  /\ \/ result' # "True" /\ self' = self /\ other' = other
                 \/ /\ result' = "True"
                    /\ source2 = Minus(source, Rounded(arg'))
                    /\ destination2 = Plus(destination, Rounded(arg'))
              /\ Plus(source2, destination2) = Plus(source, destination)]_vars

\* C22: from any state of an account whose balance is a number, a deposit of
\* a that succeeds, followed at once by withdraw of a, succeeds and brings the
\* balance back to its value exactly, with two more entries in the history;
\* the same for withdraw of a followed by deposit of a when the withdraw
\* succeeds.
C22_DepositWithdrawCancel ==
    (constructed /\ ~IsNaN(balance)) =>
        \A a \in Amounts :
            LET d == deposit(self, a, "t1")
                dw == withdraw(d.self, a, "t2")
                w == withdraw(self, a, "t1")
                wd == deposit(w.self, a, "t2")
            IN  /\ d.exc = "none"
                    => /\ dw.exc = "none"
                       /\ dw.self._balance = balance
                       /\ Len(dw.self._transaction_history) = Len(history) + 2
                /\ w.exc = "none"
                    => /\ wd.exc = "none"
                       /\ wd.self._balance = balance
                       /\ Len(wd.self._transaction_history) = Len(history) + 2

\* A numeric argument with at most two fractional digits, a positive one, and
\* its exact value.
TwoDecimals(x) == x.tag = "num" /\ x.mills % 10 = 0
Positive(x) == x.big > 0 \/ (x.big = 0 /\ x.mills > 0)
Exact(x) == Dec(x.big, x.mills \div 10)

\* C23: validating an amount v > 0 of at most two fractional digits succeeds
\* and returns v, and validating what it returned returns the same again.
C23_ValidateIdempotent ==
    (op \in {"deposit", "withdraw"} /\ TwoDecimals(arg) /\ Positive(arg))
        => LET v == _validate_amount(arg)
           IN  /\ v.exc = "none"
               /\ v.val = Exact(arg)
               /\ _validate_amount(OfDecimal(v.val)) = v

\* C24: a deposit or withdraw that fails, fails as non-numeric, non-positive
\* or insufficient funds, and a construction that fails, fails as invalid
\* identifier or negative initial balance: no other failure for any input.
C24_ClosedTaxonomy ==
    /\ (op \in {"deposit", "withdraw"} /\ result # "True")
          => result \in {NonNumeric, NonPositive, Insufficient}
    /\ (op = "create" /\ result # "created")
          => result \in InvalidIdentifier \cup {NegativeInitialBalance}

\* C25: every entry of the history, in every reachable state, is a 'deposit'
\* or a 'withdrawal', has an amount that is a number of cents > 0, and has a
\* timestamp.
C25_EntriesWellFormed ==
    \A i \in 1..Len(history) :
        /\ history[i].type \in {"deposit", "withdrawal"}
        /\ ~IsNaN(history[i].amount)
        /\ DecLess(Zero, history[i].amount)
        /\ history[i].timestamp \in Timestamps

C25_Witness ==
    /\ Len(history) = 1
    /\ history[1] = [type |-> "deposit", amount |-> Cent, timestamp |-> "t2"]
    /\ op = "withdraw"
    /\ arg = Num(0, 0)
    /\ result = NonPositive

\* C26: every step of the account leaves the history as it was or with
\* exactly one entry more at its end: no entry is removed, moved or rewritten.
C26_AppendOnly ==
    [][\/ history' = history
       \/ /\ Len(history') = Len(history) + 1
          /\ SubSeq(history', 1, Len(history)) = history]_vars

C26_Witness ==
    /\ Len(history) = 2
    /\ history[1].type = "withdrawal"
    /\ history[2].type = "deposit"
    /\ history[1].timestamp = "t2"
    /\ history[2].timestamp = "t1"

C28_IdentifierFirst ==
    op = "create" =>
        /\ ident = <<>>
              => result = "ValueError: Account number cannot be empty"
        /\ (ident # <<>> /\ ~NineAsciiDigits(ident))
              => result = "ValueError: Account number must be exactly 9 digits"

\* C29: with two threads on one account and no lock, a negative balance is
\* reachable, and only this way: both calls are withdrawals that passed the
\* sufficiency check, each amount no more than the balance its thread saw,
\* and the two amounts together more than the initial balance.
C29_NegativeNeedsInterleaving ==
    (~IsNaN(balance) /\ DecLess(balance, Zero)) =>
        /\ \A t \in Threads :
              /\ threads[t].kind = "withdraw"
              /\ threads[t].pc \in {"record", "done"}
              /\ threads[t].result \in {"none", "True"}
              /\ ~DecLess(threads[t].seen, threads[t].amount)
        /\ DecLess(initial, Plus(threads[1].amount, threads[2].amount))

C29_Witness ==
    /\ DecLess(balance, Zero)
    /\ Len(history) = 2
    /\ \A t \in Threads :
          /\ threads[t].pc = "done"
          /\ threads[t].kind = "withdraw"
          /\ threads[t].result = "True"
          /\ ~DecLess(initial, threads[t].amount)

\* C30: with two threads on one account and no lock, the balance can differ
\* from the initial balance plus the deposits minus the withdrawals of the
\* history, and only in these two ways: a call is between its balance write
\* and its history append, or a call wrote a balance computed from a value
\* another thread had replaced in between (a lost update).
Conserved ==
    balance = Dec(initial.hi + Net(history)[1], initial.lo + Net(history)[2])

C30_ConservationNeedsExclusiveAccess ==
    (constructed /\ ~Conserved) =>
        \/ \E t \in Threads : threads[t].pc = "record"
        \/ \E t \in Threads : threads[t].pc = "done" /\ threads[t].stale

C30_Witness ==
    /\ ~Conserved
    /\ Len(history) = 2
    /\ \A t \in Threads :
          /\ threads[t].pc = "done"
          /\ threads[t].kind = "deposit"
          /\ threads[t].result = "True"

\* C31: a boolean amount is taken as a number and never fails as non-numeric:
\* deposit(True) adds 1.00 and appends a 'deposit' entry of 1.00,
\* withdraw(True) takes 1.00 off a balance of at least 1.00 and appends a
\* 'withdrawal' entry of 1.00, and deposit(False) fails with 'Amount must be
\* positive'.  Stated here for the accounts whose balance is a number.
One == Dec(0, 100)

C31_BooleanAmount ==
    [][(op' \in {"deposit", "withdraw"} /\ arg'.tag = "bool" /\ ~IsNaN(balance))
       => /\ result' # NonNumeric
          /\ (op' = "deposit" /\ arg' = Bool(TRUE))
                => /\ result' = "True"
                   /\ balance' = Plus(balance, One)
                   /\ Appended(history, history', "deposit", One)
          /\ (op' = "withdraw" /\ arg' = Bool(TRUE) /\ ~DecLess(balance, One))
                => /\ result' = "True"
                   /\ balance' = Minus(balance, One)
                   /\ Appended(history, history', "withdrawal", One)
          /\ (op' = "deposit" /\ arg' = Bool(FALSE))
                => result' = NonPositive]_vars

====
